---- MODULE Spec2Model ----
(***************************************************************************)
(* A model of fabric/utils.py: abort, warn, indent, puts, fastprint,       *)
(* handle_prompt_abort, human_readable_size and human_readable_seconds.    *)
(*                                                                         *)
(* Spec       abort, warn and handle_prompt_abort, called from a stack of  *)
(*            caller frames through which a SystemExit unwinds.            *)
(* SpecPrint  puts and fastprint.                                          *)
(* SpecSize   human_readable_size applied to one drawn input.              *)
(* SpecSecs   human_readable_seconds applied to one drawn input.           *)
(* SpecIndent indent applied to one drawn input.                           *)
(***************************************************************************)
EXTENDS Integers, Sequences, FiniteSets

VARIABLES
    output,       \* fabric.state.output: [aborts, warnings, user]
    env,          \* fabric.state.env: [host_string, abort_on_prompts]
    stdout,       \* sys.stdout: the write and flush calls made, in order
    stderr,       \* sys.stderr: the strings written, one per print statement
    stack,        \* caller frames, innermost last; handler = inside try/except SystemExit
    exc,          \* <<>> or <<code>>: a SystemExit(code) in flight
    exit_status,  \* <<>> while the process runs, <<code>> once it has exited
    raised_from,  \* the stack at the moment the SystemExit in flight was raised
    last,         \* the last helper call: its arguments and how it ended
    ncalls,       \* number of helper calls made
    fn,           \* which pure function the specification applies ("" under Spec)
    arg,          \* the drawn input of the pure function
    result        \* <<>> before the call, <<outcome>> after it

vars == <<output, env, stdout, stderr, stack, exc, exit_status, raised_from,
          last, ncalls, fn, arg, result>>

iovars == <<output, env, stdout, stderr, stack, exc, exit_status, raised_from,
            last, ncalls>>

(***************************************************************************)
(* Bounds of the model.                                                    *)
(***************************************************************************)
MaxCalls == 2
MaxDepth == 2

(***************************************************************************)
(* Python values and str().                                                *)
(***************************************************************************)
PyStr(s) == [t |-> "str", v |-> s, n |-> 0]
PyInt(i) == [t |-> "int", v |-> "", n |-> i]

DigitChar(d) ==
    CASE d = 0 -> "0" [] d = 1 -> "1" [] d = 2 -> "2" [] d = 3 -> "3"
      [] d = 4 -> "4" [] d = 5 -> "5" [] d = 6 -> "6" [] d = 7 -> "7"
      [] d = 8 -> "8" [] d = 9 -> "9"

RECURSIVE NatStr(_)
NatStr(n) == IF n < 10 THEN DigitChar(n)
             ELSE NatStr(n \div 10) \o DigitChar(n % 10)

\* '%d' % n, str(n) for an integer n
IntStr(n) == IF n < 0 THEN "-" \o NatStr(-n) ELSE NatStr(n)

\* str(x)
str(x) == IF x.t = "str" THEN x.v ELSE IntStr(x.n)

Messages == {PyStr("m"), PyInt(12)}
Texts == {PyStr("a"), PyInt(7)}
Hosts == {"", "h1"}
Ends == {"\n", ""}

Write(s) == [op |-> "write", data |-> s]
Flush == [op |-> "flush", data |-> ""]

NoCall == [op |-> "", text |-> PyStr(""), show_prefix |-> FALSE, end |-> "",
           flush |-> FALSE, defaults |-> FALSE, ret |-> ""]

Call(op, text, ret) == [NoCall EXCEPT !.op = op, !.text = text, !.ret = ret]

Running == exit_status = <<>> /\ exc = <<>>
CanCall == Running /\ ncalls < MaxCalls

(***************************************************************************)
(* abort(msg)                                                              *)
(***************************************************************************)
\* mutant: the report is written whatever the aborts flag says
abort_report_ungated(msg) ==
    << "\nFatal error: " \o str(msg) \o "\n", "\nAborting.\n" >>

abort_report(msg) ==
    IF output.aborts
    THEN << "\nFatal error: " \o str(msg) \o "\n", "\nAborting.\n" >>
    ELSE << >>

\* sys.exit(1)
abort_exit == << 1 >>

\* mutant: the process is ended at once (os._exit) instead of raising SystemExit
abort_hard_exit(msg) ==
    /\ stderr' = stderr \o abort_report(msg)
    /\ exit_status' = << 1 >>
    /\ raised_from' = stack
    /\ UNCHANGED <<output, env, stdout, stack, exc>>

abort(msg) ==
    /\ stderr' = stderr \o abort_report(msg)
    /\ exc' = abort_exit
    /\ raised_from' = IF abort_exit = <<>> THEN raised_from ELSE stack
    /\ UNCHANGED <<output, env, stdout, stack, exit_status>>

Abort ==
    /\ CanCall
    /\ \E msg \in Messages :
        /\ abort(msg)
        /\ last' = Call("abort", msg, IF exc' = <<>> THEN "returned" ELSE "raised")
    /\ ncalls' = ncalls + 1
    /\ UNCHANGED <<fn, arg, result>>

(***************************************************************************)
(* warn(msg)                                                               *)
(***************************************************************************)
\* mutant: the warning is written whatever the warnings flag says
warn_report_ungated(msg) == << "\nWarning: " \o str(msg) \o "\n" \o "\n" >>

warn_report(msg) ==
    IF output.warnings
    THEN << "\nWarning: " \o str(msg) \o "\n" \o "\n" >>
    ELSE << >>

warn(msg) ==
    /\ stderr' = stderr \o warn_report(msg)
    /\ UNCHANGED <<output, env, stdout, stack, exc, exit_status, raised_from>>

Warn ==
    /\ CanCall
    /\ \E msg \in Messages :
        /\ warn(msg)
        /\ last' = Call("warn", msg, IF exc' = <<>> THEN "returned" ELSE "raised")
    /\ ncalls' = ncalls + 1
    /\ UNCHANGED <<fn, arg, result>>

(***************************************************************************)
(* puts(text, show_prefix, end, flush)                                     *)
(***************************************************************************)
\* mutant: the prefix is written whenever a host is set
puts_prefix_always(show_prefix) ==
    IF env.host_string # "" THEN "[" \o env.host_string \o "] " ELSE ""

puts_prefix(show_prefix) ==
    IF env.host_string # "" /\ show_prefix
    THEN "[" \o env.host_string \o "] "
    ELSE ""

puts_flush(flush) == IF flush THEN << Flush >> ELSE << >>

puts_enabled == output.user

\* mutant: the flush is outside the test of output.user
puts_flush_ungated(text, show_prefix, end, flush) ==
    (IF puts_enabled
     THEN << Write(puts_prefix(show_prefix) \o str(text) \o end) >>
     ELSE << >>) \o puts_flush(flush)

puts(text, show_prefix, end, flush) ==
    IF puts_enabled
    THEN << Write(puts_prefix(show_prefix) \o str(text) \o end) >> \o puts_flush(flush)
    ELSE << >>

Puts ==
    /\ CanCall
    /\ \E text \in Texts, show_prefix \in BOOLEAN, end \in Ends, flush \in BOOLEAN :
        /\ stdout' = stdout \o puts(text, show_prefix, end, flush)
        /\ last' = [op |-> "puts", text |-> text, show_prefix |-> show_prefix,
                    end |-> end, flush |-> flush, defaults |-> FALSE,
                    ret |-> "returned"]
    /\ ncalls' = ncalls + 1
    /\ UNCHANGED <<output, env, stderr, stack, exc, exit_status, raised_from>>
    /\ UNCHANGED <<fn, arg, result>>

(***************************************************************************)
(* fastprint(text, show_prefix=False, end="", flush=True)                  *)
(***************************************************************************)
fastprint_show_prefix == FALSE
fastprint_end == ""
fastprint_flush == TRUE

\* mutant: the arguments are not handed on, puts applies its own defaults
fastprint_drops_arguments(text, show_prefix, end, flush) ==
    puts(text, TRUE, "\n", FALSE)

fastprint(text, show_prefix, end, flush) == puts(text, show_prefix, end, flush)

\* fastprint(text): every optional argument left to its default
FastprintDefault ==
    /\ CanCall
    /\ \E text \in Texts :
        /\ stdout' = stdout \o fastprint(text, fastprint_show_prefix,
                                         fastprint_end, fastprint_flush)
        /\ last' = [op |-> "fastprint", text |-> text,
                    show_prefix |-> fastprint_show_prefix, end |-> fastprint_end,
                    flush |-> fastprint_flush, defaults |-> TRUE,
                    ret |-> "returned"]
    /\ ncalls' = ncalls + 1
    /\ UNCHANGED <<output, env, stderr, stack, exc, exit_status, raised_from>>
    /\ UNCHANGED <<fn, arg, result>>

\* fastprint(text, show_prefix, end, flush): every argument given
Fastprint ==
    /\ CanCall
    /\ \E text \in Texts, show_prefix \in BOOLEAN, end \in Ends, flush \in BOOLEAN :
        /\ stdout' = stdout \o fastprint(text, show_prefix, end, flush)
        /\ last' = [op |-> "fastprint", text |-> text, show_prefix |-> show_prefix,
                    end |-> end, flush |-> flush, defaults |-> FALSE,
                    ret |-> "returned"]
    /\ ncalls' = ncalls + 1
    /\ UNCHANGED <<output, env, stderr, stack, exc, exit_status, raised_from>>
    /\ UNCHANGED <<fn, arg, result>>

(***************************************************************************)
(* handle_prompt_abort()                                                   *)
(***************************************************************************)
PromptMessage == PyStr("Needed to prompt, but abort-on-prompts was set to True!")

HandlePromptAbort ==
    /\ CanCall
    /\ IF env.abort_on_prompts
       THEN abort(PromptMessage)
       ELSE UNCHANGED <<output, env, stdout, stderr, stack, exc, exit_status,
                        raised_from>>
    /\ last' = Call("handle_prompt_abort", PromptMessage,
                    IF exc' = <<>> THEN "returned" ELSE "raised")
    /\ ncalls' = ncalls + 1
    /\ UNCHANGED <<fn, arg, result>>

(***************************************************************************)
(* The callers: frames that call the helpers, some of them inside          *)
(* try/except SystemExit, and the unwinding of a SystemExit through them.  *)
(***************************************************************************)
Frame(h) == [handler |-> h]

\* a caller enters a function, inside a try/except SystemExit block or not
Enter ==
    /\ Running
    /\ Len(stack) < MaxDepth
    /\ \E h \in BOOLEAN : stack' = Append(stack, Frame(h))
    /\ UNCHANGED <<output, env, stdout, stderr, exc, exit_status, raised_from,
                   last, ncalls, fn, arg, result>>

\* the innermost caller returns normally
Return ==
    /\ Running
    /\ stack # << >>
    /\ stack' = SubSeq(stack, 1, Len(stack) - 1)
    /\ UNCHANGED <<output, env, stdout, stderr, exc, exit_status, raised_from,
                   last, ncalls, fn, arg, result>>

\* the SystemExit leaves a frame that has no handler for it
Propagate ==
    /\ exit_status = << >>
    /\ exc # << >>
    /\ stack # << >>
    /\ ~ stack[Len(stack)].handler
    /\ stack' = SubSeq(stack, 1, Len(stack) - 1)
    /\ UNCHANGED <<output, env, stdout, stderr, exc, exit_status, raised_from,
                   last, ncalls, fn, arg, result>>

\* except SystemExit: the frame recovers and goes on executing
Catch ==
    /\ exit_status = << >>
    /\ exc # << >>
    /\ stack # << >>
    /\ stack[Len(stack)].handler
    /\ exc' = << >>
    /\ UNCHANGED <<output, env, stdout, stderr, stack, exit_status, raised_from,
                   last, ncalls, fn, arg, result>>

\* the SystemExit reaches the top of the stack uncaught: the process exits
Exit ==
    /\ exit_status = << >>
    /\ exc # << >>
    /\ stack = << >>
    /\ exit_status' = exc
    /\ UNCHANGED <<output, env, stdout, stderr, stack, exc, raised_from,
                   last, ncalls, fn, arg, result>>

\* the program runs to its end without an exception
Finish ==
    /\ Running
    /\ stack = << >>
    /\ exit_status' = << 0 >>
    /\ UNCHANGED <<output, env, stdout, stderr, stack, exc, raised_from,
                   last, ncalls, fn, arg, result>>

Init ==
    /\ output \in [aborts : BOOLEAN, warnings : BOOLEAN, user : BOOLEAN]
    /\ env \in [host_string : Hosts, abort_on_prompts : BOOLEAN]
    /\ stdout = << >>
    /\ stderr = << >>
    /\ stack = << >>
    /\ exc = << >>
    /\ exit_status = << >>
    /\ raised_from = << >>
    /\ last = NoCall
    /\ ncalls = 0
    /\ fn = ""
    /\ arg = << >>
    /\ result = << >>

\* the helpers that report to sys.stderr or raise, and their callers
Next ==
    \/ Abort
    \/ Warn
    \/ HandlePromptAbort
    \/ Enter
    \/ Return
    \/ Propagate
    \/ Catch
    \/ Exit
    \/ Finish

Spec == Init /\ [][Next]_vars

\* the helpers that write to sys.stdout
NextPrint ==
    \/ Puts
    \/ FastprintDefault
    \/ Fastprint

SpecPrint == Init /\ [][NextPrint]_vars


(***************************************************************************)
(* The pure functions: the input is drawn in the initial state and the     *)
(* function is applied to it once.                                         *)
(***************************************************************************)
Returned(v) == [raised |-> "", value |-> v, unit |-> 0]
Raised(e, u) == [raised |-> e, value |-> "", unit |-> u]

InitPure(f, inputs) ==
    /\ output = [aborts |-> TRUE, warnings |-> TRUE, user |-> TRUE]
    /\ env = [host_string |-> "", abort_on_prompts |-> FALSE]
    /\ stdout = << >>
    /\ stderr = << >>
    /\ stack = << >>
    /\ exc = << >>
    /\ exit_status = << >>
    /\ raised_from = << >>
    /\ last = NoCall
    /\ ncalls = 0
    /\ fn = f
    /\ arg \in inputs
    /\ result = << >>

(***************************************************************************)
(* human_readable_seconds(secs)                                            *)
(* secs is a number with one decimal place, held in tenths of a second.    *)
(***************************************************************************)
MaxSecs == 130
MaxNegSecs == 70

LongSecs == { 3600 * h + 60 * m + s : h \in {1, 2, 99, 100}, m \in {0, 1, 59},
                                       s \in {0, 9, 59} }

SecsInputs == { 10 * w + f : w \in (-MaxNegSecs .. MaxSecs) \cup LongSecs,
                             f \in {0, 5} }

\* int(secs): truncation towards zero
int(tenths) == IF tenths >= 0 THEN tenths \div 10 ELSE -((-tenths) \div 10)

\* '%02d' % x
Fmt02d(x) == IF 0 <= x /\ x < 10 THEN "0" \o IntStr(x) ELSE IntStr(x)

secs_hours(total_secs) == total_secs \div 3600
\* mutant: the hours are not taken off before the minutes are computed
secs_minutes_of_total(total_secs) == total_secs \div 60

secs_minutes(total_secs) == (total_secs - secs_hours(total_secs) * 3600) \div 60
secs_seconds(total_secs) ==
    total_secs - secs_hours(total_secs) * 3600 - secs_minutes(total_secs) * 60

secs_show_hours(hours) == hours > 0
secs_show_minutes(minutes) == minutes > 0

human_readable_seconds(secs) ==
    LET total_secs == int(secs)
        hours == secs_hours(total_secs)
        minutes == secs_minutes(total_secs)
        seconds == secs_seconds(total_secs)
    IN  IF secs_show_hours(hours)
        THEN Returned(Fmt02d(hours) \o "h" \o Fmt02d(minutes) \o "min"
                      \o Fmt02d(seconds) \o "s")
        ELSE IF secs_show_minutes(minutes)
        THEN Returned(Fmt02d(minutes) \o "min" \o Fmt02d(seconds) \o "s")
        ELSE Returned(Fmt02d(seconds) \o "s")

CallSeconds ==
    /\ fn = "human_readable_seconds"
    /\ result = << >>
    /\ result' = << human_readable_seconds(arg) >>
    /\ UNCHANGED <<iovars, fn, arg>>

SpecSecs == InitPure("human_readable_seconds", SecsInputs) /\ [][CallSeconds]_vars


(***************************************************************************)
(* human_readable_size(size)                                               *)
(* size is a non-negative integer held as its base-1024 digits, most       *)
(* significant first (<<0>> is 0); float(size) is an IEEE double: a        *)
(* mantissa of at most 53 bits and a binary exponent.                      *)
(***************************************************************************)
MaxDigits == 8
MantissaBits == 53

SizeDigits == {0, 1, 128, 1023}

SizeInputs ==
    { d \in UNION { [1 .. n -> SizeDigits] : n \in 1 .. MaxDigits } :
        Len(d) > 1 => d[1] # 0 }

Pow2(k) == CASE k = 0 -> 1 [] k = 1 -> 2 [] k = 2 -> 4 [] k = 3 -> 8
             [] k = 4 -> 16 [] k = 5 -> 32 [] k = 6 -> 64 [] k = 7 -> 128
             [] k = 8 -> 256 [] k = 9 -> 512 [] k = 10 -> 1024

\* the bits of the digits, most significant first, ten to a digit
DigitsBits(d) ==
    [i \in 1 .. 10 * Len(d) |->
        (d[(i - 1) \div 10 + 1] \div Pow2(9 - ((i - 1) % 10))) % 2]

StripZeros(b) ==
    LET ones == {i \in 1 .. Len(b) : b[i] = 1}
    IN  IF ones = {} THEN << >>
        ELSE SubSeq(b, CHOOSE i \in ones : \A j \in ones : i <= j, Len(b))

RECURSIVE BitsNat(_)
\* the value of at most ten bits
BitsNat(b) == IF b = << >> THEN 0
              ELSE 2 * BitsNat(SubSeq(b, 1, Len(b) - 1)) + b[Len(b)]

AllZero(b) == \A i \in 1 .. Len(b) : b[i] = 0
AllOne(b) == \A i \in 1 .. Len(b) : b[i] = 1

\* b + 1 on a bit string that is not all ones
BitsInc(b) ==
    LET zeros == {i \in 1 .. Len(b) : b[i] = 0}
        k == CHOOSE i \in zeros : \A j \in zeros : j <= i
    IN  [i \in 1 .. Len(b) |-> IF i < k THEN b[i] ELSE IF i = k THEN 1 ELSE 0]

\* float(size): round to nearest, ties to even; the value is m * 2^e
float(digits) ==
    LET b == StripZeros(DigitsBits(digits))
    IN  IF Len(b) <= MantissaBits THEN [m |-> b, e |-> 0]
        ELSE LET m == SubSeq(b, 1, MantissaBits)
                 rest == SubSeq(b, MantissaBits + 1, Len(b))
                 up == /\ rest[1] = 1
                       /\ (~ AllZero(Tail(rest)) \/ m[MantissaBits] = 1)
             IN  IF ~ up THEN [m |-> m, e |-> Len(rest)]
                 ELSE IF AllOne(m)
                 THEN [m |-> <<1>> \o [i \in 1 .. MantissaBits - 1 |-> 0],
                       e |-> Len(rest) + 1]
                 ELSE [m |-> BitsInc(m), e |-> Len(rest)]

\* size >= 1024
FloatGe1024(x) == Len(x.m) + x.e >= 11

\* size /= 1024
FloatDiv1024(x) == [x EXCEPT !.e = x.e - 10]

\* the integer part and the fraction bits of a float
FloatInt(x) ==
    IF x.e >= 0 THEN BitsNat(x.m \o [i \in 1 .. x.e |-> 0])
    ELSE IF Len(x.m) + x.e <= 0 THEN 0
    ELSE BitsNat(SubSeq(x.m, 1, Len(x.m) + x.e))

FloatFrac(x) ==
    IF x.e >= 0 THEN << >>
    ELSE IF Len(x.m) + x.e <= 0 THEN [i \in 1 .. -(Len(x.m) + x.e) |-> 0] \o x.m
    ELSE SubSeq(x.m, Len(x.m) + x.e + 1, Len(x.m))

\* the fraction bits as base-1024 digits, padded with zero bits on the right
FracDigits(f) ==
    LET n == (Len(f) + 9) \div 10
        bit(i) == IF i <= Len(f) THEN f[i] ELSE 0
    IN  [j \in 1 .. n |->
            BitsNat([i \in 1 .. 10 |-> bit(10 * (j - 1) + i)])]

RECURSIVE Times100(_, _)
\* 100 * 0.f: [hi |-> the integer part, lo |-> the fraction's base-1024 digits]
Times100(f, carry) ==
    IF f = << >> THEN [hi |-> carry, lo |-> << >>]
    ELSE LET t == 100 * f[Len(f)] + carry
             r == Times100(SubSeq(f, 1, Len(f) - 1), t \div 1024)
         IN  [hi |-> r.hi, lo |-> Append(r.lo, t % 1024)]

\* '%.2f' % x: the exact value rounded to two decimals, ties to even
Fmt2f(x) ==
    LET p == Times100(FracDigits(FloatFrac(x)), 0)
        up == /\ p.lo # << >>
              /\ p.lo[1] >= 512
              /\ \/ p.lo[1] > 512
                 \/ ~ AllZero(Tail(p.lo))
                 \/ p.hi % 2 = 1
        h == IF up THEN p.hi + 1 ELSE p.hi
        i == FloatInt(x) + h \div 100
    IN  IntStr(i) \o "." \o Fmt02d(h % 100)

units == << "", "K", "M", "G", "T", "P", "E" >>

\* the loop's limit on unit
size_unit_limit == Len(units)

RECURSIVE size_loop(_, _)
\* while size >= 1024 and unit < len(units): size /= 1024; unit += 1
size_loop(size, unit) ==
    IF FloatGe1024(size) /\ unit < size_unit_limit
    THEN size_loop(FloatDiv1024(size), unit + 1)
    ELSE [size |-> size, unit |-> unit]

human_readable_size(digits) ==
    LET r == size_loop(float(digits), 0)
    IN  IF r.unit = 0
        THEN [raised |-> "", value |-> IntStr(FloatInt(r.size)) \o " B", unit |-> 0]
        ELSE IF r.unit + 1 > Len(units)
        THEN Raised("IndexError", r.unit)
        ELSE [raised |-> "",
              value |-> Fmt2f(r.size) \o " " \o units[r.unit + 1] \o "iB",
              unit |-> r.unit]

CallSize ==
    /\ fn = "human_readable_size"
    /\ result = << >>
    /\ result' = << human_readable_size(arg) >>
    /\ UNCHANGED <<iovars, fn, arg>>

SpecSize == InitPure("human_readable_size", SizeInputs) /\ [][CallSize]_vars


(***************************************************************************)
(* indent(text, spaces, strip)                                             *)
(* A string is a sequence of characters; a text that has no splitlines is  *)
(* a list of such lines.                                                   *)
(***************************************************************************)
MaxLen == 5
MaxLines == 2
MaxLineLen == 2
MaxSpaces == 2

NL == "\n"
Chars == {" ", "a", NL}
Whitespace == {" ", NL}

SeqsUpTo(S, n) == UNION { [1 .. k -> S] : k \in 0 .. n }

IndentInputs ==
    { [kind |-> "str", s |-> t, l |-> << >>, spaces |-> sp, strip |-> st] :
        t \in SeqsUpTo(Chars, MaxLen), sp \in 0 .. MaxSpaces, st \in BOOLEAN }
    \cup
    { [kind |-> "list", s |-> << >>, l |-> t, spaces |-> sp, strip |-> st] :
        t \in SeqsUpTo(SeqsUpTo(Chars \ {NL}, MaxLineLen), MaxLines),
        sp \in 0 .. MaxSpaces, st \in BOOLEAN }

RECURSIVE Split(_)
\* text.split('\n'): the segments between the newlines
Split(text) ==
    LET nls == {i \in 1 .. Len(text) : text[i] = NL}
    IN  IF nls = {} THEN << text >>
        ELSE LET k == CHOOSE i \in nls : \A j \in nls : i <= j
             IN  << SubSeq(text, 1, k - 1) >> \o Split(SubSeq(text, k + 1, Len(text)))

RECURSIVE join(_)
\* '\n'.join(lines)
join(lines) ==
    IF lines = << >> THEN << >>
    ELSE IF Len(lines) = 1 THEN lines[1]
    ELSE lines[1] \o << NL >> \o join(Tail(lines))

\* text.splitlines()
splitlines(text) ==
    LET segs == Split(text)
    IN  IF segs[Len(segs)] = << >> THEN SubSeq(segs, 1, Len(segs) - 1) ELSE segs

\* the number of leading blanks of a line
Leading(line) ==
    LET others == {i \in 1 .. Len(line) : line[i] # " "}
    IN  IF others = {} THEN Len(line)
        ELSE (CHOOSE i \in others : \A j \in others : i <= j) - 1

Blank(line) == \A i \in 1 .. Len(line) : line[i] \in Whitespace

\* textwrap.dedent(text)
dedent(text) ==
    LET segs == Split(text)
        norm == [i \in 1 .. Len(segs) |-> IF Blank(segs[i]) THEN << >> ELSE segs[i]]
        indents == { Leading(norm[i]) : i \in {j \in 1 .. Len(norm) : norm[j] # << >>} }
        margin == IF indents = {} THEN 0
                  ELSE CHOOSE m \in indents : \A n \in indents : m <= n
    IN  join([i \in 1 .. Len(norm) |->
                IF norm[i] = << >> THEN << >>
                ELSE SubSeq(norm[i], margin + 1, Len(norm[i]))])

\* s.strip()
strip(s) ==
    LET keep == {i \in 1 .. Len(s) : s[i] \notin Whitespace}
    IN  IF keep = {} THEN << >>
        ELSE SubSeq(s, CHOOSE i \in keep : \A j \in keep : i <= j,
                       CHOOSE i \in keep : \A j \in keep : j <= i)

\* ' ' * spaces
Spaces(n) == [i \in 1 .. n |-> " "]

\* the text as a string: a list of lines is joined by newlines
indent_text(a) == IF a.kind = "str" THEN a.s ELSE join(a.l)

\* the text that is split into lines and prefixed
indent_source(a) == IF a.strip THEN dedent(indent_text(a)) ELSE indent_text(a)

\* output.strip(), then the first indent again
indent_finish(prefix, out) == prefix \o strip(out)

indent(a) ==
    LET text == indent_source(a)
        prefix == Spaces(a.spaces)
        lines == splitlines(text)
        out == join([i \in 1 .. Len(lines) |-> prefix \o lines[i]])
    IN  indent_finish(prefix, out)

CallIndent ==
    /\ fn = "indent"
    /\ result = << >>
    /\ result' = << Returned(indent(arg)) >>
    /\ UNCHANGED <<iovars, fn, arg>>

SpecIndent == InitPure("indent", IndentInputs) /\ [][CallIndent]_vars


(***************************************************************************)
(* The claims.                                                             *)
(***************************************************************************)
HelperCall(op) == ncalls' = ncalls + 1 /\ last'.op = op

\* C1: abort(msg) always raises the exit request with status 1 and does not
\* return; the two-line fatal report is on the error stream, written by that
\* call, exactly when output.aborts is set, and it is there in the state in
\* which the exit request exists.
C1_AbortContract ==
    [][ HelperCall("abort") =>
          /\ exc' = << 1 >>
          /\ last'.ret = "raised"
          /\ exit_status' = << >>
          /\ stderr' = stderr \o
                (IF output.aborts
                 THEN << "\nFatal error: " \o str(last'.text) \o "\n",
                         "\nAborting.\n" >>
                 ELSE << >>) ]_vars

C1_Witness ==
    /\ last.op = "abort"
    /\ last.text = PyInt(12)
    /\ output.aborts
    /\ stderr = << "\nFatal error: 12\n", "\nAborting.\n" >>
    /\ exit_status = << 1 >>

InnermostHandler(frames) ==
    CHOOSE i \in 1 .. Len(frames) :
        /\ frames[i].handler
        /\ \A j \in i + 1 .. Len(frames) : ~ frames[j].handler

HasHandler(frames) == \E i \in 1 .. Len(frames) : frames[i].handler

C2_ExitOnlyUncaught ==
    /\ exit_status = << 1 >> =>
          /\ ~ HasHandler(raised_from)
          /\ stack = << >>
          /\ last.op \in {"abort", "handle_prompt_abort"}
          /\ last.ret = "raised"
    /\ (exc # << >> /\ HasHandler(raised_from)) => exit_status = << >>

C2_CaughtContinues ==
    (exc # << >> /\ exc' = << >>) =>
        /\ exit_status' = << >>
        /\ HasHandler(raised_from)
        /\ stack' = SubSeq(raised_from, 1, InnermostHandler(raised_from))
        /\ stack' # << >>

\* C2: the exit request raised by abort (directly or through
\* handle_prompt_abort) unwinds the callers: the innermost caller that has a
\* handler catches it, the process does not exit and that caller goes on; the
\* process exits with status 1 only when no caller on the stack had a handler
\* and the request reached the top.
C2_InterceptableUnwind == [] C2_ExitOnlyUncaught /\ [][C2_CaughtContinues]_vars

C2_Witness ==
    /\ last.op = "handle_prompt_abort"
    /\ last.ret = "raised"
    /\ env.abort_on_prompts
    /\ raised_from = << Frame(TRUE), Frame(FALSE) >>
    /\ stack = << Frame(TRUE) >>
    /\ exc = << >>
    /\ exit_status = << >>

\* C3: with output.user disabled no puts or fastprint call, whatever its
\* arguments, writes to or flushes standard output.
C3_PutsGatedNoOp == ~ output.user => stdout = << >>

C3_Witness ==
    /\ ~ output.user
    /\ ncalls = 2
    /\ last.op = "puts"
    /\ last.flush
    /\ stdout = << >>

\* C4: with output.user enabled puts appends exactly one write of
\* prefix + str(text) + end, the prefix being "[<host>] " exactly when
\* show_prefix is true and the host is non-empty, and one flush after it
\* exactly when flush is true.
C4_PutsOutput ==
    [][ (HelperCall("puts") /\ output.user) =>
          stdout' = stdout
             \o << [op |-> "write",
                    data |-> (IF last'.show_prefix /\ env.host_string # ""
                              THEN "[" \o env.host_string \o "] " ELSE "")
                             \o str(last'.text) \o last'.end] >>
             \o (IF last'.flush THEN << [op |-> "flush", data |-> ""] >>
                 ELSE << >>) ]_vars

C4_Witness ==
    /\ output.user
    /\ last.op = "puts"
    /\ last.show_prefix
    /\ last.flush
    /\ env.host_string = "h1"
    /\ stdout = << Write("[h1] 7\n"), Flush >>

\* C5: fastprint(text) has the effect of puts(text, show_prefix=False, end="",
\* flush=True), and fastprint with explicit arguments the effect of puts with
\* the same arguments, whatever the configuration.
C5_FastprintIsPuts ==
    [][ HelperCall("fastprint") =>
          IF last'.defaults
          THEN stdout' = stdout \o puts(last'.text, FALSE, "", TRUE)
          ELSE stdout' = stdout \o puts(last'.text, last'.show_prefix,
                                        last'.end, last'.flush) ]_vars

C5_Witness ==
    /\ output.user
    /\ env.host_string = "h1"
    /\ last.op = "fastprint"
    /\ last.defaults
    /\ stdout = << Write("a"), Flush >>

TwoDigits(x) == IF x < 10 THEN "0" \o DigitChar(x)
                ELSE IF x < 100 THEN DigitChar(x \div 10) \o DigitChar(x % 10)
                ELSE IntStr(x)

\* C7: for secs >= 0, with t the integer part of secs, h = t div 3600,
\* m = (t mod 3600) div 60, s = t mod 60: h*3600 + m*60 + s = t, m and s are
\* below 60, and the result is HHhMMminSSs when h > 0, MMminSSs when h = 0
\* and m > 0, SSs otherwise, every field padded with zeros to two digits.
C7_SecondsFormat ==
    (result # << >> /\ arg >= 0) =>
        LET t == arg \div 10
            h == t \div 3600
            m == (t % 3600) \div 60
            s == t % 60
        IN  /\ h * 3600 + m * 60 + s = t
            /\ 0 <= m /\ m < 60 /\ 0 <= s /\ s < 60
            /\ result[1].raised = ""
            /\ result[1].value =
                 (IF h > 0
                  THEN TwoDigits(h) \o "h" \o TwoDigits(m) \o "min"
                       \o TwoDigits(s) \o "s"
                  ELSE IF m > 0
                  THEN TwoDigits(m) \o "min" \o TwoDigits(s) \o "s"
                  ELSE TwoDigits(s) \o "s")

C7_Witness ==
    /\ arg = 36695
    /\ result = << Returned("01h01min09s") >>

\* C8: human_readable_seconds with a negative secs fails with an error and
\* returns no formatted duration.
C8_NegativeSecondsFail ==
    (result # << >> /\ arg < 0) => result[1].raised # ""

\* C6: human_readable_size divides d times, d the largest k in 0..6 with
\* 1024^k <= size, never fails, and formats with unit number d: "<N> B" for
\* d = 0, "<X.XX> <Unit>iB" otherwise, 1024^k giving 1.00 of unit k and sizes
\* from 1024^7 on still the largest unit, EiB. (size is taken as the code
\* takes it, after float(size).)
C6_SizeUnitCapped ==
    result # << >> =>
        LET x == float(arg)
            k == IF x.m = << >> THEN 0 ELSE (Len(x.m) + x.e - 1) \div 10
            d == IF k > 6 THEN 6 ELSE k
            name == << "", "K", "M", "G", "T", "P", "E" >>
        IN  /\ result[1].raised = ""
            /\ result[1].unit = d
            /\ d = 0 => result[1].value = IntStr(arg[1]) \o " B"
            /\ (d > 0 /\ arg[1] = 1 /\ AllZero(Tail(arg)) /\ k <= 6) =>
                  result[1].value = "1.00 " \o name[d + 1] \o "iB"
            /\ d > 0 =>
                  result[1].value =
                     Fmt2f([x EXCEPT !.e = x.e - 10 * d]) \o " " \o name[d + 1] \o "iB"

NonBlankLines(text) ==
    LET lines == splitlines(text)
    IN  SelectSeq(lines, LAMBDA l : ~ Blank(l))

\* C9: indent preserves relative indentation: between any two non-blank
\* lines of the result, the first included, the difference in leading
\* whitespace is the difference between the corresponding input lines.
C9_RelativeIndentPreserved ==
    result # << >> =>
        LET in == NonBlankLines(indent_text(arg))
            out == NonBlankLines(result[1].value)
        IN  /\ Len(out) = Len(in)
            /\ \A i, j \in 1 .. Len(in) :
                  Leading(out[i]) - Leading(out[j]) = Leading(in[i]) - Leading(in[j])

====
